---- MODULE Spec2Model ----
(***************************************************************************)
(* A model of sync.py: the replication of the timing metadata of one git   *)
(* history (the source) into another (the destination).  Strings are       *)
(* sequences of tokens (characters, or the fields of a date), so that the  *)
(* pattern searches of git (--author, --grep) and the split of the log     *)
(* lines are computed, not assumed.                                        *)
(***************************************************************************)
EXTENDS Integers, Sequences, FiniteSets, TLC

\* Python's None, where a string is expected
None == <<"None">>

(***************************************************************************)
(* Bounds of the model.                                                    *)
(***************************************************************************)
MaxSrc  == 3   \* entries in the source history
MaxRuns == 2   \* invocations of the program in one behaviour

(***************************************************************************)
(* Strings.                                                                *)
(***************************************************************************)
IsSubstring(p, s) ==
    \E k \in 0..(Len(s) - Len(p)) : SubSeq(s, k + 1, k + Len(p)) = p

RECURSIVE Join(_, _)
Join(strs, sep) ==
    IF Len(strs) = 0 THEN <<>>
    ELSE IF Len(strs) = 1 THEN strs[1]
    ELSE strs[1] \o sep \o Join(Tail(strs), sep)

RECURSIVE Split(_, _)
\* str.split(sep) of Python for a one-character separator
Split(s, sep) ==
    IF \A k \in 1..Len(s) : s[k] # sep THEN <<s>>
    ELSE LET k == CHOOSE j \in 1..Len(s) :
                     s[j] = sep /\ \A m \in 1..(j - 1) : s[m] # sep
         IN  <<SubSeq(s, 1, k - 1)>> \o Split(SubSeq(s, k + 1, Len(s)), sep)

RECURSIVE Strip(_)
\* str.strip(): leading and trailing whitespace removed
Strip(s) ==
    IF s = <<>> THEN s
    ELSE IF Head(s) \in {" ", "\n"} THEN Strip(Tail(s))
    ELSE IF s[Len(s)] \in {" ", "\n"} THEN Strip(SubSeq(s, 1, Len(s) - 1))
    ELSE s

Reverse(s) == [k \in 1..Len(s) |-> s[Len(s) + 1 - k]]

Range(s) == {s[k] : k \in DOMAIN s}

(***************************************************************************)
(* Hashes, dates and authors of the histories.                             *)
(***************************************************************************)
\* %H: fixed-length hex digests (here two hex characters), unique per entry
HashPool == << <<"a", "c">>, <<"c", "a">>, <<"a", "a">>, <<"c", "c">> >>
Hashes   == Range(HashPool)

\* the points in time of the source entries, and the time of the run
Date(t, tz) == [t |-> t, tz |-> tz]
Now == Date("t9", "+0000")

\* %aD / %cD: RFC 2822 text of a date, time then zone offset
FormatDate(d) == <<d.t, d.tz>>
\* git parsing GIT_AUTHOR_DATE / GIT_COMMITTER_DATE
ParseDate(s) == Date(s[1], s[2])

\* "Name <email>" of the two authors of the source history
AuthorA == <<"A", " ", "<", "a", "@", "x", ">">>
AuthorB == <<"B", " ", "<", "b", "@", "x", ">">>

EmailA == <<"a", "@", "x">>
EmailB == <<"b", "@", "x">>
EmailC == <<"c", "@", "x">>


(***************************************************************************)
(* The source history store: `git log --author` (lines 150-162).           *)
(***************************************************************************)
\* entry k of the source history, in log order: its author, its dates and
\* its hash (the authors alternate, and the committer date of every second
\* entry differs from its author date, as after a rewrite)
SrcDates == <<Date("t1", "+0000"), Date("t2", "+0530"), Date("t3", "-0800"),
              Date("t4", "+0000")>>
SrcEntry(k) ==
    [author |-> IF k % 2 = 1 THEN AuthorA ELSE AuthorB,
     adate  |-> SrcDates[k],
     cdate  |-> IF k % 2 = 0 THEN Date("t5", "+0100") ELSE SrcDates[k],
     hash   |-> HashPool[k]]

\* the source histories: at most MaxSrc entries, or no history store at all
Sources ==
    {[valid |-> TRUE, log |-> [k \in 1..n |-> SrcEntry(k)]] : n \in 0..MaxSrc}
    \cup {[valid |-> FALSE, log |-> <<>>]}

\* (a variant: %h, the abbreviated hash, in place of %H)
LogLine_abbreviated(e) ==
    FormatDate(e.adate) \o <<"|">> \o FormatDate(e.cdate) \o <<"|">> \o <<Head(e.hash)>>

\* --format=format:%aD|%cD|%H
LogLine(e) == FormatDate(e.adate) \o <<"|">> \o FormatDate(e.cdate) \o <<"|">> \o e.hash

\* (a variant: the log is not filtered by author)
AuthoredBy_everyone(log, ident) == log

\* the entries `git log --author identity` selects: a pattern search in the
\* author's "Name <email>", in log order
AuthoredBy(log, ident) == SelectSeq(log, LAMBDA e : IsSubstring(ident, e.author))

\* stdout and return code of git -C in_git_dir log --format=... --author identity
\* (git log fails where there is no history store, and in a store that has
\* no entry yet: "your current branch does not have any commits yet")
GitLogAuthor(s, ident) ==
    IF ~s.valid \/ s.log = <<>> THEN [rc |-> 128, stdout |-> <<>>]
    ELSE [rc |-> 0,
          stdout |-> Join([k \in 1..Len(AuthoredBy(s.log, ident)) |->
                              LogLine(AuthoredBy(s.log, ident)[k])], <<"\n">>)]


(***************************************************************************)
(* The destination path and the history store in it.                       *)
(***************************************************************************)
Marker       == "sync_repo.dat"       \* <output_dir>/sync_repo.dat
NestedMarker == "out/sync_repo.dat"   \* <output_dir>/<output_dir>/sync_repo.dat
Other        == "README"              \* a file of a foreign work tree

InitialMsg == <<"I", "n", "i", "t", "i", "a", "l", " ", "c", "o", "m", "m", "i", "t">>
RevertMsg(h) == <<"R", "e", "v", "e", "r", "t", " ">> \o h

Entry(msg, adate, cdate, changes) ==
    [msg |-> msg, adate |-> adate, cdate |-> cdate, changes |-> changes]

\* kind: what is at the path; parent: its parent directory exists; subdir: it
\* has a directory of its own name inside; git: it has a .git directory;
\* files: the work tree; tracked, index: the files of HEAD and the staged ones;
\* log: the history of HEAD, oldest entry first.
Dest(kind, parent, subdir, git, files, tracked, index, log) ==
    [kind |-> kind, parent |-> parent, subdir |-> subdir, git |-> git,
     files |-> files, tracked |-> tracked, index |-> index, log |-> log]

IsRepo(d) == d.kind = "dir" /\ d.git

\* the environment of a git child process: a dict, None for a missing key
EnvNames == {"GIT_AUTHOR_EMAIL", "EMAIL", "GIT_AUTHOR_DATE", "GIT_COMMITTER_DATE",
             "GIT_COMITER_DATE"}

\* (a variant: git commit --amend, which replaces the most recent entry)
GitCommit_amending(d, msg, env, allow_empty) ==
    IF ~IsRepo(d) \/ (d.index = {} /\ ~allow_empty)
    THEN [ok |-> FALSE, dst |-> d]
    ELSE [ok |-> TRUE,
          dst |-> [d EXCEPT
             !.log = Append(SubSeq(@, 1, Len(@) - 1), Entry(msg,
                 IF env["GIT_AUTHOR_DATE"] = None THEN Now
                 ELSE ParseDate(env["GIT_AUTHOR_DATE"]),
                 IF env["GIT_COMMITTER_DATE"] = None THEN Now
                 ELSE ParseDate(env["GIT_COMMITTER_DATE"]),
                 d.index)),
             !.tracked = @ \cup d.index,
             !.index = {}]]

\* git commit [-a] [--allow-empty] -m msg, run with the environment env:
\* ok says whether it succeeded, dst is the destination afterwards
GitCommit(d, msg, env, allow_empty) ==
    IF ~IsRepo(d) \/ (d.index = {} /\ ~allow_empty)
    THEN [ok |-> FALSE, dst |-> d]
    ELSE [ok |-> TRUE,
          dst |-> [d EXCEPT
             !.log = Append(@, Entry(msg,
                 IF env["GIT_AUTHOR_DATE"] = None THEN Now
                 ELSE ParseDate(env["GIT_AUTHOR_DATE"]),
                 IF env["GIT_COMMITTER_DATE"] = None THEN Now
                 ELSE ParseDate(env["GIT_COMMITTER_DATE"]),
                 d.index)),
             !.tracked = @ \cup d.index,
             !.index = {}]]

\* git add -A
GitAddAll(d) == [d EXCEPT !.index = @ \cup (d.files \ d.tracked)]

\* %f: the subject line, sanitized for a file name
Sanitize(msg) == [k \in 1..Len(msg) |-> IF msg[k] = " " THEN "-" ELSE msg[k]]

\* (a variant: the log without --grep, which lists every entry)
GitLogGrep_all(d, sha) ==
    IF ~IsRepo(d) \/ d.log = <<>> THEN <<>>
    ELSE Join([k \in 1..Len(d.log) |-> Sanitize(Reverse(d.log)[k].msg)], <<"\n">>)

\* stdout of git -C output_dir log --format=format:%f --grep=sha: the entries
\* of HEAD whose message matches the pattern, most recent first; nothing when
\* the command fails (no repository, or no entry yet)
GitLogGrep(d, sha) ==
    IF ~IsRepo(d) \/ d.log = <<>> THEN <<>>
    ELSE LET hits == SelectSeq(Reverse(d.log), LAMBDA e : IsSubstring(sha, e.msg))
         IN  Join([k \in 1..Len(hits) |-> Sanitize(hits[k].msg)], <<"\n">>)

\* (a variant: a check that never finds the commit)
commit_exists_never(d, sha) == 0

\* (a variant: a check that looks at the most recent entry alone)
commit_exists_head(d, sha) ==
    IF ~IsRepo(d) \/ d.log = <<>> THEN 0
    ELSE IF IsSubstring(sha, d.log[Len(d.log)].msg)
         THEN Len(Strip(Sanitize(d.log[Len(d.log)].msg)))
    ELSE 0

\* commit_exists (lines 110-131): the length of the stripped output
commit_exists(d, sha) == Len(Strip(GitLogGrep(d, sha)))


\* the dict of lines 185-189: os.environ plus the two dates of the record
CommitEnv(env, author_timestamp, commit_timestamp) ==
    [env EXCEPT !["GIT_AUTHOR_DATE"] = author_timestamp,
                !["GIT_COMITER_DATE"] = commit_timestamp]

\* validate_existing_output_repo (lines 90-107): the value returned and
\* whether the warning is printed
validate_existing_output_repo(d) ==
    IF d.kind # "dir" THEN [result |-> FALSE, warning |-> FALSE]
    ELSE IF ~d.git THEN [result |-> FALSE, warning |-> FALSE]
    ELSE [result |-> TRUE, warning |-> Marker \notin d.files]

\* get_git_email (lines 34-55): configparser raises NoSectionError, which is
\* not caught, when the file is missing or has no [user] section
get_git_email(config, env) ==
    IF ~config.file \/ ~config.section THEN [raised |-> "NoSectionError", value |-> None]
    ELSE IF config.email # None THEN [raised |-> "none", value |-> config.email]
    ELSE IF env["GIT_AUTHOR_EMAIL"] # None
         THEN [raised |-> "none", value |-> env["GIT_AUTHOR_EMAIL"]]
    ELSE [raised |-> "none", value |-> env["EMAIL"]]

(***************************************************************************)
(* The inputs of an invocation.                                            *)
(***************************************************************************)
\* ~/.gitconfig
GitConfigs ==
    {[file |-> FALSE, section |-> FALSE, email |-> None],
     [file |-> TRUE,  section |-> FALSE, email |-> None],
     [file |-> TRUE,  section |-> TRUE,  email |-> None],
     [file |-> TRUE,  section |-> TRUE,  email |-> EmailA]}

DefaultConfig == [file |-> TRUE, section |-> TRUE, email |-> EmailA]

\* os.environ
Environ(author_email, email) ==
    [n \in EnvNames |-> IF n = "GIT_AUTHOR_EMAIL" THEN author_email
                        ELSE IF n = "EMAIL" THEN email ELSE None]
Environs == {Environ(a, e) : a \in {None, EmailB}, e \in {None, EmailC}}

\* the configuration and environment of the operator who runs the program
Operators ==
    {[gitconfig |-> g, environ |-> Environ(None, None)] : g \in GitConfigs}
    \cup {[gitconfig |-> [file |-> TRUE, section |-> TRUE, email |-> None],
           environ |-> e] : e \in Environs}
    \cup {[gitconfig |-> DefaultConfig, environ |-> Environ(EmailB, EmailC)],
          [gitconfig |-> [file |-> FALSE, section |-> FALSE, email |-> None],
           environ |-> Environ(EmailB, None)]}

\* the parsed command line (lines 226-284); rel: DESTINATION_REPO is a
\* relative path; the github and gitlab parsers have no --identity
CommandLines ==
    {[cmd |-> c, force |-> f, quiet |-> q, rel |-> FALSE, identity |-> None] :
        c \in {"github", "gitlab"}, f \in BOOLEAN, q \in BOOLEAN}
    \cup {a \in [cmd : {"local"}, force : BOOLEAN, quiet : BOOLEAN, rel : BOOLEAN,
                 identity : {None, EmailA, <<"@", "x">>}] : a.rel => a.force}
NoArgs == [cmd |-> "local", force |-> FALSE, quiet |-> FALSE, rel |-> FALSE,
           identity |-> None]

\* the destinations an invocation may find
Replicated(k) == Entry(HashPool[k], SrcEntry(k).adate, Date("t8", "+0000"), {})
InitialEntry  == Entry(InitialMsg, Date("t7", "+0000"), Date("t7", "+0000"), {Marker})
Dests ==
    {Dest("absent", TRUE, FALSE, FALSE, {}, {}, {}, <<>>),
     Dest("absent", FALSE, FALSE, FALSE, {}, {}, {}, <<>>),
     Dest("file", TRUE, FALSE, FALSE, {}, {}, {}, <<>>),
     Dest("dir", TRUE, FALSE, FALSE, {}, {}, {}, <<>>),
     Dest("dir", TRUE, TRUE, FALSE, {}, {}, {}, <<>>),
     Dest("dir", TRUE, FALSE, TRUE, {}, {}, {}, <<>>),
     Dest("dir", TRUE, FALSE, TRUE, {Marker}, {Marker}, {}, <<InitialEntry>>),
     Dest("dir", TRUE, FALSE, TRUE, {Marker}, {Marker}, {},
          <<InitialEntry, Replicated(2)>>),
     Dest("dir", TRUE, FALSE, TRUE, {Marker, Other}, {Marker}, {Other},
          <<InitialEntry>>),
     Dest("dir", TRUE, FALSE, TRUE, {Other}, {Other}, {},
          <<Entry(RevertMsg(HashPool[1]), Date("t6", "+0000"), Date("t6", "+0000"),
                  {Other})>>)}

(***************************************************************************)
(* The state.                                                              *)
(***************************************************************************)
VARIABLES
    src,         \* the source history store (never written)
    dst,         \* the destination path and its history store
    gitconfig,   \* ~/.gitconfig of the operator
    environ,     \* os.environ of the process
    cwd,         \* the working directory of the process: "cwd" or "out"
    pc,          \* where the process is
    args,        \* the parsed command line
    identity,    \* args.identity after line 293
    saved_path,  \* cd.saved_path
    exc,         \* the exception that ends the process, or "none"
    warned,      \* the warning of validate_existing_output_repo was printed
    output,      \* what the process has printed, to stdout or stderr
    lines,       \* process.stdout.decode().split("\n") of recreate_commits
    i,           \* the line the loop of recreate_commits is at
    num_copied,  \* num_copied of recreate_commits
    dst0,        \* history: the destination when the invocation started
    log0,        \* history: the destination's log when recreate_commits started
    src_read,    \* history: the source log was queried in this invocation
    prev,        \* history: outcome of the invocation before this one
    runs         \* history: the number of invocations so far

vars == <<src, dst, gitconfig, environ, cwd, pc, args, identity, saved_path, exc,
          warned, output, lines, i, num_copied, dst0, log0, src_read, prev, runs>>

NoPrev == [ok |-> FALSE, identity |-> None]

\* the exit status of the process
status == IF exc = "none" THEN 0 ELSE 1

Init ==
    /\ src \in Sources
    /\ dst \in Dests
    /\ gitconfig = DefaultConfig
    /\ environ = Environ(None, None)
    /\ cwd = "cwd"
    /\ pc = "idle"
    /\ args = NoArgs
    /\ identity = None
    /\ saved_path = "cwd"
    /\ exc = "none"
    /\ warned = FALSE
    /\ output = <<>>
    /\ lines = <<>>
    /\ i = 0
    /\ num_copied = 0
    /\ dst0 = dst
    /\ log0 = <<>>
    /\ src_read = FALSE
    /\ prev = NoPrev
    /\ runs = 0

(***************************************************************************)
(* The steps of an invocation (lines 224-298).                             *)
(***************************************************************************)
\* the process ends with the exception e
Raise(e) == exc' = e /\ pc' = "exit"

\* lines 284-290: the operator runs the program
Invoke ==
    /\ pc = "idle"
    /\ runs < MaxRuns
    /\ runs' = runs + 1
    /\ args' \in CommandLines
    /\ \E o \in Operators : gitconfig' = o.gitconfig /\ environ' = o.environ
    \* the configuration and the environment are only read without --identity
    /\ (args'.cmd # "local" \/ args'.identity # None) =>
          gitconfig' = DefaultConfig /\ environ' = Environ(None, None)
    /\ pc' = IF args'.force THEN "fi_prepare" ELSE "identity"
    /\ dst0' = dst
    /\ UNCHANGED <<src, dst, cwd, saved_path, identity, exc, warned, output, lines, i,
                   num_copied, log0, src_read, prev>>

\* the process has exited, with the status that exc decides; nothing of it
\* remains but what it wrote to the destination
Terminate ==
    /\ pc = "exit"
    /\ pc' = "idle"
    /\ prev' = [ok |-> exc = "none" /\ args.cmd = "local", identity |-> identity]
    /\ args' = NoArgs
    /\ gitconfig' = DefaultConfig /\ environ' = Environ(None, None)
    /\ identity' = None /\ exc' = "none" /\ warned' = FALSE /\ lines' = <<>>
    /\ output' = <<>>
    /\ i' = 0 /\ num_copied' = 0 /\ log0' = <<>> /\ src_read' = FALSE
    /\ saved_path' = "cwd"
    /\ dst0' = dst
    /\ UNCHANGED <<src, dst, cwd, runs>>

\* (a variant: the history store is left in place)
rmtree_git_kept(d) == d

\* line 70: shutil.rmtree(output_dir / ".git") deletes the history store: the
\* history, the index and what was tracked
rmtree_git(d) == [d EXCEPT !.git = FALSE, !.tracked = {}, !.index = {}, !.log = <<>>]

\* force_init_output, lines 67-72, and cd.__enter__ (lines 24-27)
ForcePrepare ==
    /\ pc = "fi_prepare"
    /\ IF dst.kind = "file" THEN
          /\ Raise("FileExistsError")
          /\ UNCHANGED <<dst, cwd, saved_path>>
       ELSE IF dst.kind = "absent" /\ ~dst.parent THEN
          /\ Raise("FileNotFoundError")
          /\ UNCHANGED <<dst, cwd, saved_path>>
       ELSE
          /\ dst' = IF dst.kind = "absent" THEN [dst EXCEPT !.kind = "dir"]
                    ELSE IF dst.git THEN rmtree_git(dst)
                    ELSE dst
          /\ saved_path' = cwd
          /\ cwd' = "out"
          /\ pc' = "fi_init"
          /\ exc' = exc
    /\ UNCHANGED <<src, gitconfig, environ, args, identity, warned, output, lines, i,
                   num_copied, dst0, log0, src_read, prev, runs>>

\* lines 75-81: git init, which may fail
ForceGitInit ==
    /\ pc = "fi_init"
    /\ \E ok \in BOOLEAN :
          IF ok THEN dst' = [dst EXCEPT !.git = TRUE] /\ pc' = "fi_marker" /\ exc' = exc
          ELSE dst' = dst /\ pc' = "fi_leave" /\ exc' = "CalledProcessError"
    /\ UNCHANGED <<src, gitconfig, environ, cwd, args, identity, saved_path, warned,
                   output, lines, i, num_copied, dst0, log0, src_read, prev, runs>>

\* the file that Path(output_dir) / "sync_repo.dat" names once the working
\* directory is output_dir (lines 74, 83)
info_file(rel) == IF rel THEN NestedMarker ELSE Marker

\* lines 83-84: the marker file is written
ForceMarker ==
    /\ pc = "fi_marker"
    /\ IF info_file(args.rel) = NestedMarker /\ ~dst.subdir
       THEN dst' = dst /\ pc' = "fi_leave" /\ exc' = "FileNotFoundError"
       ELSE /\ dst' = [dst EXCEPT !.files = @ \cup {info_file(args.rel)}]
            /\ pc' = "fi_add"
            /\ exc' = exc
    /\ UNCHANGED <<src, gitconfig, environ, cwd, args, identity, saved_path, warned,
                   output, lines, i, num_copied, dst0, log0, src_read, prev, runs>>

\* line 86: git add -A, which may fail
ForceAdd ==
    /\ pc = "fi_add"
    /\ \E ok \in BOOLEAN :
          IF ok THEN dst' = GitAddAll(dst) /\ pc' = "fi_commit" /\ exc' = exc
          ELSE dst' = dst /\ pc' = "fi_leave" /\ exc' = "CalledProcessError"
    /\ UNCHANGED <<src, gitconfig, environ, cwd, args, identity, saved_path, warned,
                   output, lines, i, num_copied, dst0, log0, src_read, prev, runs>>

\* line 87: git commit -am "Initial commit", which may fail
ForceCommit ==
    /\ pc = "fi_commit"
    /\ \E ok \in BOOLEAN :
          LET r == GitCommit(dst, InitialMsg, environ, FALSE) IN
          IF ok /\ r.ok THEN dst' = r.dst /\ pc' = "fi_leave" /\ exc' = exc
          ELSE dst' = dst /\ pc' = "fi_leave" /\ exc' = "CalledProcessError"
    /\ UNCHANGED <<src, gitconfig, environ, cwd, args, identity, saved_path, warned,
                   output, lines, i, num_copied, dst0, log0, src_read, prev, runs>>

\* (a variant: the working directory is left where it is)
cd_exit_kept(current, saved, dry_run) == current

\* cd.__exit__ (lines 29-31): the working directory after it
cd_exit(current, saved, dry_run) == IF ~dry_run THEN saved ELSE current

\* cd.__exit__ (lines 29-31), on leaving the with block normally or by an
\* exception, which then ends the process; cd(output_dir) is not a dry run
ForceLeave ==
    /\ pc = "fi_leave"
    /\ cwd' = cd_exit(cwd, saved_path, FALSE)
    /\ pc' = IF exc = "none" THEN "identity" ELSE "exit"
    /\ UNCHANGED <<src, dst, gitconfig, environ, args, identity, saved_path, exc,
                   warned, output, lines, i, num_copied, dst0, log0, src_read, prev, runs>>

\* (a variant: the subcommands without an implementation return at once)
ResolveIdentity_silent ==
    /\ pc = "identity"
    /\ IF args.cmd # "local" THEN Raise("none") /\ identity' = identity
       ELSE IF args.identity # None THEN
          identity' = args.identity /\ pc' = "validate" /\ exc' = exc
       ELSE LET r == get_git_email(gitconfig, environ) IN
          IF r.raised # "none" THEN Raise(r.raised) /\ identity' = identity
          ELSE identity' = r.value /\ pc' = "validate" /\ exc' = exc
    /\ UNCHANGED <<src, dst, gitconfig, environ, cwd, args, saved_path, warned,
                   output, lines, i, num_copied, dst0, log0, src_read, prev, runs>>

\* lines 292-293: args.identity is an attribute of the local subcommand only
\* (lines 248-251); reading it under github or gitlab raises AttributeError
\* before sync_github or sync_gitlab (lines 202-209) is reached
ResolveIdentity ==
    /\ pc = "identity"
    /\ IF args.cmd # "local" THEN Raise("AttributeError") /\ identity' = identity
       ELSE IF args.identity # None THEN
          identity' = args.identity /\ pc' = "validate" /\ exc' = exc
       ELSE LET r == get_git_email(gitconfig, environ) IN
          IF r.raised # "none" THEN Raise(r.raised) /\ identity' = identity
          ELSE identity' = r.value /\ pc' = "validate" /\ exc' = exc
    /\ UNCHANGED <<src, dst, gitconfig, environ, cwd, args, saved_path, warned,
                   output, lines, i, num_copied, dst0, log0, src_read, prev, runs>>

\* line 295: the value returned is not used
Validate ==
    /\ pc = "validate"
    /\ warned' = validate_existing_output_repo(dst).warning
    /\ output' = IF validate_existing_output_repo(dst).warning
                 THEN Append(output, [kind |-> "warning", sha |-> None])
                 ELSE output
    /\ pc' = "dispatch"
    /\ UNCHANGED <<src, dst, gitconfig, environ, cwd, args, identity, saved_path, exc,
                   lines, i, num_copied, dst0, log0, src_read, prev, runs>>
\* (a variant: the return code of the command is not looked at)
run_unchecked(process) == "none"

\* subprocess.run(..., check=True) (lines 150-162): a non-zero return code
\* raises CalledProcessError
run_checked(process) ==
    IF process.rc # 0 THEN "CalledProcessError" ELSE "none"

\* line 298 and sync_local (lines 212-218), up to the loop of
\* recreate_commits (lines 150-164); subprocess.run raises TypeError for an
\* argument that is None, before it starts git
Dispatch ==
    /\ pc = "dispatch"
    /\ IF args.cmd # "local" THEN
          /\ Raise("NotImplementedError")
          /\ UNCHANGED <<lines, i, log0, src_read>>
       ELSE IF identity = None THEN
          /\ Raise("TypeError")
          /\ UNCHANGED <<lines, i, log0, src_read>>
       ELSE LET process == GitLogAuthor(src, identity)
                raised  == run_checked(process) IN
          /\ src_read' = TRUE
          /\ log0' = dst.log
          /\ IF raised # "none"
             THEN Raise(raised) /\ UNCHANGED <<lines, i>>
             ELSE /\ lines' = Split(process.stdout, "\n")
                  /\ i' = 1
                  /\ pc' = "loop"
                  /\ exc' = exc
    /\ num_copied' = 0
    /\ UNCHANGED <<src, dst, gitconfig, environ, cwd, args, identity, saved_path,
                   warned, output, dst0, prev, runs>>

\* (a variant: a skipped record is counted as copied)
loop_body_counting_skips(d, line, env, n, ok) ==
    LET fields == Split(line, "|") IN
    IF Len(fields) # 3 THEN [dst |-> d, num_copied |-> n, raised |-> "none"]
    ELSE IF commit_exists(d, fields[3]) # 0
    THEN [dst |-> d, num_copied |-> n + 1, raised |-> "none"]
    ELSE LET r == GitCommit(d, fields[3], CommitEnv(env, fields[1], fields[2]), TRUE)
         IN  IF ok /\ r.ok
             THEN [dst |-> r.dst, num_copied |-> n + 1, raised |-> "none"]
             ELSE [dst |-> d, num_copied |-> n, raised |-> "CalledProcessError"]

\* (a variant: a failed write undoes the writes of the run)
loop_body_rolling_back(d, line, env, n, ok) ==
    LET fields == Split(line, "|") IN
    IF Len(fields) # 3 THEN [dst |-> d, num_copied |-> n, raised |-> "none"]
    ELSE IF commit_exists(d, fields[3]) # 0
    THEN [dst |-> d, num_copied |-> n, raised |-> "none"]
    ELSE LET r == GitCommit(d, fields[3], CommitEnv(env, fields[1], fields[2]), TRUE)
         IN  IF ok /\ r.ok
             THEN [dst |-> r.dst, num_copied |-> n + 1, raised |-> "none"]
             ELSE [dst |-> [d EXCEPT !.log = SubSeq(@, 1, Len(@) - n)],
                   num_copied |-> n, raised |-> "CalledProcessError"]

\* the body of the loop of recreate_commits (lines 166-191) for one line of
\* the log, with n entries copied so far; ok: the git commit does not fail
\* for a reason of its own. A line that does not split in three is skipped
\* (ValueError), so is a record that commit_exists finds; check=True raises
\* when the commit fails.
loop_body(d, line, env, n, ok) ==
    LET fields == Split(line, "|") IN
    IF Len(fields) # 3 THEN [dst |-> d, num_copied |-> n, raised |-> "none"]
    ELSE IF commit_exists(d, fields[3]) # 0
    THEN [dst |-> d, num_copied |-> n, raised |-> "none"]
    ELSE LET r == GitCommit(d, fields[3], CommitEnv(env, fields[1], fields[2]), TRUE)
         IN  IF ok /\ r.ok
             THEN [dst |-> r.dst, num_copied |-> n + 1, raised |-> "none"]
             ELSE [dst |-> d, num_copied |-> n, raised |-> "CalledProcessError"]

\* one iteration of the loop of recreate_commits (lines 165-191)
LoopStep ==
    /\ pc = "loop"
    /\ i <= Len(lines)
    /\ \E ok \in BOOLEAN :
          LET r == loop_body(dst, lines[i], environ, num_copied, ok) IN
          /\ dst' = r.dst
          /\ num_copied' = r.num_copied
          /\ IF r.raised = "none" THEN i' = i + 1 /\ UNCHANGED <<pc, exc>>
             ELSE i' = i /\ Raise(r.raised)
    /\ output' = LET fields == Split(lines[i], "|") IN
                 IF Len(fields) = 3 /\ commit_exists(dst, fields[3]) # 0
                 THEN Append(output, [kind |-> "skip", sha |-> fields[3]])
                 ELSE output
    /\ UNCHANGED <<src, gitconfig, environ, cwd, args, identity, saved_path, warned,
                   lines, dst0, log0, src_read, prev, runs>>

\* line 193 and the return of sync_local: the process exits with status 0
LoopDone ==
    /\ pc = "loop"
    /\ i > Len(lines)
    /\ pc' = "exit"
    /\ UNCHANGED <<src, dst, gitconfig, environ, cwd, args, identity, saved_path, exc,
                   warned, output, lines, i, num_copied, dst0, log0, src_read, prev, runs>>

Next ==
    \/ Invoke
    \/ Terminate
    \/ ForcePrepare
    \/ ForceGitInit
    \/ ForceMarker
    \/ ForceAdd
    \/ ForceCommit
    \/ ForceLeave
    \/ ResolveIdentity
    \/ Validate
    \/ Dispatch
    \/ LoopStep
    \/ LoopDone

Spec == Init /\ [][Next]_vars

(***************************************************************************)
(* What the claims speak of.                                               *)
(***************************************************************************)
\* the Contribution Records of the run: the source entries that match identity
Matching == AuthoredBy(src.log, identity)

\* the process is in recreate_commits, or ended in or after its loop
InRun == i >= 1

\* the entries the run has appended to the destination
Written == SubSeq(dst.log, Len(log0) + 1, Len(dst.log))

Subjects(log) == {log[k].msg : k \in DOMAIN log}
Msgs(log) == [k \in DOMAIN log |-> log[k].msg]

\* a Replicated Entry for the hash h is in log
HasReplicated(log, h) == \E k \in DOMAIN log : log[k].msg = h
\* some entry of log mentions h in its message
Mentions(log, h) == \E k \in DOMAIN log : IsSubstring(h, log[k].msg)

\* a successful return of recreate_commits
Returned == pc = "exit" /\ exc = "none" /\ InRun

TypeOK ==
    /\ pc \in {"idle", "exit", "fi_prepare", "fi_init", "fi_marker", "fi_add",
               "fi_commit", "fi_leave", "identity", "validate", "dispatch", "loop"}
    /\ cwd \in {"cwd", "out"}
    /\ num_copied \in 0..MaxSrc

(***************************************************************************)
(* The claims.                                                             *)
(***************************************************************************)
\* a Replicated Entry that a run of this behaviour wrote (its committer date
\* is the time of the run)
WrittenEarlier(log) == \E k \in DOMAIN log : log[k].msg \in Hashes /\ log[k].cdate = Now

\* C1: when a run of the local subcommand succeeded and the next run, without
\* --force and with the same identity, succeeds too, that second run returns 0
\* and leaves the set of subjects of the destination as the first left it.
Idempotent ==
    (Returned /\ ~args.force /\ prev.ok /\ prev.identity = identity)
        => (num_copied = 0 /\ Subjects(dst.log) = Subjects(dst0.log))

IdempotentWitness ==
    /\ Returned /\ ~args.force /\ prev.ok /\ prev.identity = identity
    /\ Len(Matching) >= 2
    /\ WrittenEarlier(dst0.log)

\* C2: every entry a run writes has the author date and the committer date of
\* the source record whose hash is its subject.
TimestampFidelity ==
    InRun => \A k \in DOMAIN Written : \E j \in DOMAIN Matching :
                /\ Matching[j].hash = Written[k].msg
                /\ Written[k].adate = Matching[j].adate
                /\ Written[k].cdate = Matching[j].cdate

\* C3, as stated: when recreate_commits returns, every matching source record
\* has a Replicated Entry whose subject is its hash, and from a destination
\* without Replicated Entries the subjects written are exactly the hashes of
\* the matching records, the count their number.
HashesOf(records) == [j \in DOMAIN records |-> records[j].hash]
HashesOfMatching == HashesOf(Matching)

NoDuplicates ==
    \A h \in Hashes : Cardinality({k \in DOMAIN dst.log : dst.log[k].msg = h}) <= 1

\* a run after one that a write failure aborted part-way
NoDuplicatesWitness ==
    /\ Returned /\ ~args.force
    /\ ~prev.ok /\ prev.identity = identity
    /\ WrittenEarlier(log0)
    /\ num_copied >= 1

\* C5, as stated: when the destination holds Replicated Entries for some of
\* the source hashes, a run writes one entry for exactly each matching record
\* that had no Replicated Entry, and returns the number of entries it wrote.
SomeReplicated == \E j \in DOMAIN Matching : HasReplicated(log0, Matching[j].hash)

HashPreserved ==
    InRun => \A k \in DOMAIN Written : \E j \in DOMAIN Matching :
                /\ j < i
                /\ Written[k].msg = Matching[j].hash
                /\ Written[k].adate = Matching[j].adate

HashPreservedWitness == InRun /\ Len(Written) >= 2

\* C7: when the write for record i fails, the process ends with a non-zero
\* status, the destination is what it was when the run started followed by
\* the entries written for the records before i, and holds none for a later one.
WriteFailed == pc = "exit" /\ exc = "CalledProcessError" /\ InRun

PartialFailure ==
    WriteFailed =>
        /\ status # 0
        /\ Len(dst.log) = Len(log0) + num_copied
        /\ SubSeq(dst.log, 1, Len(log0)) = log0
        /\ Subjects(Written) =
              {Matching[j].hash : j \in {m \in 1..(i - 1) : ~Mentions(log0, Matching[m].hash)}}

PartialFailureWitness == WriteFailed /\ num_copied >= 1 /\ i < Len(lines)

\* C8: an invocation without --force on a destination that is not a directory
\* with a history store ends with a non-zero status.
InvalidDestinationFatal ==
    (pc = "exit" /\ ~args.force /\ ~validate_existing_output_repo(dst0).result)
        => status # 0

\* C9: an invocation of the local subcommand without --identity, when the
\* configuration and the environment give none, ends with a non-zero status
\* with the destination as it found it and the source not read.
Unresolvable ==
    /\ args.cmd = "local"
    /\ args.identity = None
    /\ get_git_email(gitconfig, environ).value = None

ConfigErrorBeforeWork ==
    (pc = "exit" /\ Unresolvable) =>
        /\ status # 0
        /\ exc \in {"NoSectionError", "TypeError"} => (dst = dst0 /\ ~src_read)

\* C10: after force_init_output on a destination that had a history store the
\* history holds the initial entry and nothing else, and a replication that
\* follows writes one entry for every matching source record.
ForceResets ==
    /\ (args.force /\ IsRepo(dst0) /\ pc \in {"identity", "validate", "dispatch"})
          => Msgs(dst.log) = <<InitialMsg>>
    /\ (args.force /\ IsRepo(dst0) /\ pc \in {"fi_init", "fi_marker", "fi_add",
                                              "fi_commit", "fi_leave"})
          => Msgs(dst.log) \in {<<>>, <<InitialMsg>>}
    /\ (args.force /\ IsRepo(dst0) /\ Returned)
          => /\ Msgs(dst.log) = <<InitialMsg>> \o HashesOfMatching
             /\ num_copied = Len(Matching)

ForceResetsWitness ==
    /\ args.force /\ Returned
    /\ \E j \in DOMAIN Matching : HasReplicated(dst0.log, Matching[j].hash)
    /\ num_copied >= 2

\* C11: in an invocation without --force the history the destination had when
\* the invocation started stays, entry for entry, the beginning of its
\* history: entries are only appended.
IsPrefix(a, b) == Len(a) <= Len(b) /\ SubSeq(b, 1, Len(a)) = a

HistoryOnlyGrows == ~args.force => IsPrefix(dst0.log, dst.log)

HistoryOnlyGrowsWitness ==
    /\ pc = "exit" /\ ~args.force
    /\ Len(dst0.log) >= 2
    /\ Len(dst.log) >= Len(dst0.log) + 2

\* C12: every entry a run writes changes no file, whatever was staged in the
\* destination when the run started.
NoContentCopied == InRun => \A k \in DOMAIN Written : Written[k].changes = {}

\* C13: every invocation of the github or the gitlab subcommand, with or
\* without --force and --quiet, exits with a non-zero status.
HostedSourcesFail ==
    (pc = "exit" /\ args.cmd \in {"github", "gitlab"}) => status # 0

HostedSourcesFailWitness ==
    /\ pc = "exit" /\ args.cmd = "gitlab" /\ args.force /\ args.quiet
    /\ Msgs(dst.log) = <<InitialMsg>>
    /\ exc = "AttributeError"

\* C14: the subject of every entry a run writes is the hash of a source record
\* whose author line contains the identity; no source record of another
\* author is among the entries written.
IdentityFiltering ==
    InRun =>
        /\ \A k \in DOMAIN Written : \E r \in Range(src.log) :
              r.hash = Written[k].msg /\ IsSubstring(identity, r.author)
        /\ \A r \in Range(src.log) :
              ~IsSubstring(identity, r.author) => ~HasReplicated(Written, r.hash)

IdentityFilteringWitness ==
    /\ Returned
    /\ Len(Written) >= 2
    /\ \E r \in Range(src.log) :
          ~IsSubstring(identity, r.author) /\ ~HasReplicated(dst.log, r.hash)

\* C15: when the source is not a history store, or the log query fails because
\* the store has no entry, recreate_commits ends the process with a non-zero status before the loop:
\* no record is gone through, nothing is printed about a record and the
\* history of the destination is what it was when recreate_commits started.
SourceErrorWritesNothing ==
    (pc = "exit" /\ src_read /\ (~src.valid \/ src.log = <<>>)) =>
        /\ status # 0
        /\ exc = "CalledProcessError"
        /\ ~InRun /\ num_copied = 0
        /\ dst.log = log0
        /\ \A k \in DOMAIN output : output[k].kind # "skip"

SourceErrorWritesNothingWitness ==
    /\ pc = "exit" /\ src_read /\ ~src.valid
    /\ ~args.force
    /\ Len(dst.log) >= 2

\* C16: when a run of the local subcommand without --quiet succeeds, the
\* process exits with status zero and has printed the number of entries the
\* run wrote, the count recreate_commits returned: something other than the
\* missing-marker warning and the skip diagnostics.
CountReported ==
    (Returned /\ ~args.quiet) =>
        /\ status = 0
        /\ \E k \in DOMAIN output : output[k].kind \notin {"warning", "skip"}

\* C17: when force_init_output has succeeded, for a destination path absolute
\* or relative, the marker file is at the root of the destination and among
\* the files of the initial entry, and validate_existing_output_repo returns
\* true for the destination without the missing-marker warning.
InitializedValid ==
    (args.force /\ pc = "identity") =>
        /\ Marker \in dst.files
        /\ Len(dst.log) = 1 /\ Marker \in dst.log[1].changes
        /\ validate_existing_output_repo(dst) = [result |-> TRUE, warning |-> FALSE]

\* C18: when force_init_output is given a destination path that does not
\* exist, with its parent directory or without, the directory is created and
\* the initialization goes on to git init.
MissingDirectoriesCreated ==
    (args.force /\ dst0.kind = "absent" /\ pc \notin {"idle", "fi_prepare"}) =>
        /\ dst.kind = "dir"
        /\ pc = "exit" => dst.git \/ exc = "CalledProcessError"

\* C19: without --identity the identity is the email of the configuration
\* when it sets one, else GIT_AUTHOR_EMAIL when set, else EMAIL when set, else
\* nothing; so too when the configuration file is missing or has no user
\* section, and the resolution raises no error for them.
FirstSet(config, env) ==
    IF config.email # None THEN config.email
    ELSE IF env["GIT_AUTHOR_EMAIL"] # None THEN env["GIT_AUTHOR_EMAIL"]
    ELSE env["EMAIL"]

ResolutionOrder ==
    (args.cmd = "local" /\ args.identity = None) =>
        /\ exc # "NoSectionError"
        /\ pc \in {"validate", "dispatch", "loop"} => identity = FirstSet(gitconfig, environ)

\* C20: outside the with block of force_init_output the working directory of
\* the process is the one it was started in: it is restored when the block
\* is left, after the initial commit or after a step of the block failed.
InBlock == pc \in {"fi_init", "fi_marker", "fi_add", "fi_commit", "fi_leave"}

WorkingDirectoryRestored ==
    /\ InBlock => saved_path = "cwd"
    /\ ~InBlock => cwd = "cwd"

\* the initial commit failed
WorkingDirectoryRestoredWitness ==
    /\ pc = "exit" /\ args.force
    /\ exc = "CalledProcessError" /\ ~src_read
    /\ Marker \in dst.index /\ dst.log = <<>>
    /\ cwd = "cwd"

====
